---- MODULE Spec2Model ----
(***************************************************************************)
(* Model of pxr/usdQt/common.py: the menu helpers (MenuSeparator,          *)
(* MenuAction, MenuBuilder, MenuBarBuilder) and the UsdQtUtilities hook    *)
(* registry.                                                               *)
(*                                                                         *)
(* Python's None is the empty sequence <<>> and an object x that may be    *)
(* None is <<x>>.  A name is a sequence of one-character strings so that   *)
(* str.strip() can be computed.                                            *)
(***************************************************************************)
EXTENDS Integers, Sequences, FiniteSets, TLC

\* Longest list of actions handed to a MenuBuilder.
MaxActions == 2
\* Longest list of functions registered under one name.
MaxRegs == 3

None == <<>>

RECURSIVE SeqsUpTo(_, _)
SeqsUpTo(S, n) ==
    IF n = 0 THEN {<<>>}
    ELSE LET shorter == SeqsUpTo(S, n - 1)
         IN  shorter \cup {Append(s, x) : s \in {t \in shorter : Len(t) = n - 1}, x \in S}

(***************************************************************************)
(* Contexts and the catalogue of action objects used to build menus.       *)
(*   "sep" : the MenuSeparator singleton                                   *)
(*   "a1"  : MenuAction subclass reimplementing label and enable (enabled  *)
(*           in context c1 only), constructed with a callable              *)
(*   "a2"  : MenuAction subclass reimplementing label and Build (None in   *)
(*           context c0, the inherited Build otherwise), with neither a    *)
(*           callable nor a reimplemented do                               *)
(***************************************************************************)
Contexts == {"c0", "c1"}
Actions == {"sep", "a1", "a2"}
ActionLists == SeqsUpTo(Actions, MaxActions)
ShortActionLists == SeqsUpTo(Actions, 1)
RawNames == {<<"F">>, <<" ", "F">>, <<"E", " ">>}

\* isinstance(actionBuilder, MenuAction)
IsMenuAction(a) == a \in {"a1", "a2"}

\* MenuAction.enable: True unless reimplemented (a1)
enable(a, context) == IF a = "a1" THEN context = "c1" ELSE TRUE

\* MenuAction.label, reimplemented by every action of the catalogue
label(a, context) == <<a, context>>

\* MenuAction.do
do(a, context) ==
    [self |-> a, context |-> context,
     outcome |-> IF a = "a2" THEN "NotImplementedError" ELSE "callable"]

\* str.strip()
RECURSIVE lstrip(_)
lstrip(s) == IF s # <<>> /\ Head(s) = " " THEN lstrip(Tail(s)) ELSE s

RECURSIVE rstrip(_)
rstrip(s) == IF s # <<>> /\ s[Len(s)] = " " THEN rstrip(SubSeq(s, 1, Len(s) - 1)) ELSE s

strip(s) == rstrip(lstrip(s))

(***************************************************************************)
(* A QAction: text, enabled, separator flag, custom data, parent and the   *)
(* slots connected to its triggered signal, each the closure               *)
(* lambda: self.do(context) with the self and context it captured.         *)
(***************************************************************************)
QAction(text) ==
    [text |-> text, enabled |-> TRUE, separator |-> FALSE, data |-> "",
     parent |-> <<>>, triggered |-> <<>>]

\* QMenu.addSeparator
addSeparator(menu) ==
    [menu EXCEPT !.items = Append(@, [QAction(<<>>) EXCEPT !.separator = TRUE,
                                                           !.parent = menu.title])]

\* QMenu.isEmpty: no visible action that is not a separator
isEmpty(menu) == \A i \in 1..Len(menu.items) : menu.items[i].separator

\* The default MenuAction.Build
MenuActionBuild_default(a, context) ==
    LET action == QAction(label(a, context))
    IN  IF enable(a, context)
        THEN <<[action EXCEPT !.triggered = <<[self |-> a, context |-> context]>>]>>
        ELSE <<[action EXCEPT !.enabled = FALSE]>>

\* MenuAction.Build, with a2's override that may return None
MenuActionBuild(a, context) ==
    IF a = "a2" /\ context = "c0" THEN None ELSE MenuActionBuild_default(a, context)

Event(fn, a, context, menu) ==
    [fn |-> fn, self |-> a, context |-> context, items |-> menu.items]

\* _MenuSeparator.AddToMenu
SeparatorAddToMenu(a, st, context) ==
    LET menu == [addSeparator(st.menu) EXCEPT !.items[Len(st.menu.items) + 1].data = a]
    IN  [menu |-> menu,
         log |-> st.log \o <<Event("AddToMenu", a, context, st.menu),
                             Event("return", a, context, menu)>>]

MenuActionAddToMenu_noData(a, st, context) ==
    LET action == MenuActionBuild(a, context)
        menu == IF action # None
                THEN [st.menu EXCEPT !.items =
                         Append(@, [action[1] EXCEPT !.parent = st.menu.title])]
                ELSE st.menu
    IN  [menu |-> menu,
         log |-> st.log \o <<Event("AddToMenu", a, context, st.menu),
                             Event("Build", a, context, st.menu),
                             Event("return", a, context, menu)>>]

\* MenuAction.AddToMenu
MenuActionAddToMenu(a, st, context) ==
    LET action == MenuActionBuild(a, context)
        menu == IF action # None
                THEN [st.menu EXCEPT !.items =
                         Append(@, [action[1] EXCEPT !.data = a,
                                                     !.parent = st.menu.title])]
                ELSE st.menu
    IN  [menu |-> menu,
         log |-> st.log \o <<Event("AddToMenu", a, context, st.menu),
                             Event("Build", a, context, st.menu),
                             Event("return", a, context, menu)>>]

\* action.AddToMenu(menu, context), dispatched on the class of the action
AddToMenu(a, st, context) ==
    IF IsMenuAction(a) THEN MenuActionAddToMenu(a, st, context)
    ELSE SeparatorAddToMenu(a, st, context)

\* MenuBuilder.__init__
MenuBuilderInit(name, actions) ==
    [ok |-> strip(name) # <<>>, name |-> strip(name), actions |-> actions]

RECURSIVE AddAll(_, _, _)
AddAll(actions, st, context) ==
    IF actions = <<>> THEN st
    ELSE AddAll(Tail(actions), AddToMenu(Head(actions), st, context), context)

RECURSIVE AddAll_reversed(_, _, _)
AddAll_reversed(actions, st, context) ==
    IF actions = <<>> THEN st
    ELSE AddAll_reversed(SubSeq(actions, 1, Len(actions) - 1),
                         AddToMenu(actions[Len(actions)], st, context), context)

MenuBuilderBuild_reversed(builder, context) ==
    LET st == AddAll_reversed(builder.actions,
                     [menu |-> [title |-> builder.name, items |-> <<>>], log |-> <<>>],
                     context)
    IN  [ret |-> IF ~isEmpty(st.menu) THEN <<st.menu>> ELSE None,
         menu |-> st.menu, log |-> st.log]

\* MenuBuilder.Build; menu is the QMenu that was filled, returned or not
MenuBuilderBuild(builder, context) ==
    LET st == AddAll(builder.actions,
                     [menu |-> [title |-> builder.name, items |-> <<>>], log |-> <<>>],
                     context)
    IN  [ret |-> IF ~isEmpty(st.menu) THEN <<st.menu>> ELSE None,
         menu |-> st.menu, log |-> st.log]

(***************************************************************************)
(* MenuBarBuilder.  self holds contextProvider (represented by the context *)
(* its GetMenuContext currently returns), the registries menus and         *)
(* menuBuilders (dicts: functions whose domain is the set of keys) and     *)
(* menuBar (the titles of the QMenus added to the QMenuBar, in order; the  *)
(* QMenu objects themselves are the values of menus).                      *)
(***************************************************************************)
Put(dict, key, value) ==
    [k \in DOMAIN dict \cup {key} |-> IF k = key THEN value ELSE dict[k]]

EmptyDict == [k \in {} |-> None]

\* dict.get(name)
Get(dict, name) == IF name \in DOMAIN dict THEN <<dict[name]>> ELSE None

\* MenuBarBuilder.GetMenu
GetMenu(self, name) == Get(self.menus, name)

\* MenuBarBuilder.GetMenuBuilder
GetMenuBuilder(self, name) == Get(self.menuBuilders, name)

\* MenuAction.Update
MenuActionUpdate(a, action, context) == [action EXCEPT !.enabled = enable(a, context)]

RECURSIVE UpdateLoop_all(_, _, _, _)
UpdateLoop_all(items, i, context, log) ==
    IF i > Len(items) THEN [items |-> items, log |-> log]
    ELSE UpdateLoop_all([items EXCEPT ![i] = MenuActionUpdate(items[i].data, @, context)],
                        i + 1, context,
                        Append(log, [index |-> i, self |-> items[i].data, context |-> context]))

\* the loop of _menuAboutToShow over menu.actions()
RECURSIVE UpdateLoop(_, _, _, _)
UpdateLoop(items, i, context, log) ==
    IF i > Len(items) THEN [items |-> items, log |-> log]
    ELSE LET actionBuilder == items[i].data
         IN  IF actionBuilder # "" /\ IsMenuAction(actionBuilder)
             THEN UpdateLoop([items EXCEPT ![i] = MenuActionUpdate(actionBuilder, @, context)],
                             i + 1, context,
                             Append(log, [index |-> i, self |-> actionBuilder,
                                          context |-> context]))
             ELSE UpdateLoop(items, i + 1, context, log)

menuAboutToShow_all(self, menuName) ==
    LET r == UpdateLoop_all(self.menus[menuName].items, 1, self.contextProvider, <<>>)
    IN  [self |-> [self EXCEPT !.menus[menuName].items = r.items],
         updates |-> r.log, ctxCalls |-> 1]

\* MenuBarBuilder._menuAboutToShow
menuAboutToShow(self, menuName) ==
    LET r == UpdateLoop(self.menus[menuName].items, 1, self.contextProvider, <<>>)
    IN  [self |-> [self EXCEPT !.menus[menuName].items = r.items],
         updates |-> r.log, ctxCalls |-> 1]

AddMenuBuilt(self, menuBuilder, b) ==
    IF b.ret # None
    THEN [ret |-> "True", ctxCalls |-> 1, build |-> <<b>>,
          self |-> [self EXCEPT !.menuBar = Append(@, menuBuilder.name),
                                !.menus = Put(@, menuBuilder.name, b.ret[1]),
                                !.menuBuilders = Put(@, menuBuilder.name, menuBuilder)]]
    ELSE [ret |-> "False", ctxCalls |-> 1, build |-> <<b>>, self |-> self]

AddMenu_noCheck(self, menuBuilder) ==
    AddMenuBuilt(self, menuBuilder, MenuBuilderBuild(menuBuilder, self.contextProvider))

AddMenu_alwaysAdd(self, menuBuilder) ==
    IF menuBuilder.name \in DOMAIN self.menus
    THEN [ret |-> "ValueError", ctxCalls |-> 0, build |-> None, self |-> self]
    ELSE LET b == MenuBuilderBuild(menuBuilder, self.contextProvider)
         IN  AddMenuBuilt(self, menuBuilder, [b EXCEPT !.ret = <<b.menu>>])

\* MenuBarBuilder.AddMenu
AddMenu(self, menuBuilder) ==
    IF menuBuilder.name \in DOMAIN self.menus
    THEN [ret |-> "ValueError", ctxCalls |-> 0, build |-> None, self |-> self]
    ELSE AddMenuBuilt(self, menuBuilder, MenuBuilderBuild(menuBuilder, self.contextProvider))

\* the triggered signal of a QAction: every connected slot runs
EmitTriggered(action) ==
    [k \in 1..Len(action.triggered) |-> do(action.triggered[k].self,
                                           action.triggered[k].context)]

(***************************************************************************)
(* State: one MenuBarBuilder and the record of the last operation on it.   *)
(***************************************************************************)
VARIABLES contextProvider, menus, menuBuilders, menuBar, last

menuVars == <<contextProvider, menus, menuBuilders, menuBar, last>>

Self ==
    [contextProvider |-> contextProvider, menus |-> menus,
     menuBuilders |-> menuBuilders, menuBar |-> menuBar]

\* MenuBarBuilder.__init__ without menuBuilders
MenuBarInit ==
    /\ contextProvider \in Contexts
    /\ menus = EmptyDict
    /\ menuBuilders = EmptyDict
    /\ menuBar = <<>>
    /\ last = [op |-> "init"]

SetSelf(self) ==
    /\ contextProvider' = self.contextProvider
    /\ menus' = self.menus
    /\ menuBuilders' = self.menuBuilders
    /\ menuBar' = self.menuBar

\* A call of AddMenu with a freshly constructed MenuBuilder.  AddMenu raises
\* on a name that is taken before it reads the builder's actions, so for such
\* a name the actions are drawn from the short lists only.
DoAddMenu ==
    \E rawName \in RawNames :
      \E actions \in IF strip(rawName) \in DOMAIN menus THEN ShortActionLists
                      ELSE ActionLists :
        LET menuBuilder == MenuBuilderInit(rawName, actions)
            r == AddMenu(Self, menuBuilder)
        IN  /\ menuBuilder.ok
            /\ SetSelf(r.self)
            /\ last' = [op |-> "AddMenu", ret |-> r.ret, name |-> menuBuilder.name,
                        builder |-> IF r.build = None THEN None ELSE <<menuBuilder>>,
                        build |-> r.build, ctxCalls |-> r.ctxCalls]

\* the aboutToShow signal of a registered menu
DoAboutToShow ==
    \E menuName \in DOMAIN menus :
        LET r == menuAboutToShow(Self, menuName)
        IN  /\ SetSelf(r.self)
            /\ last' = [op |-> "show", name |-> menuName, updates |-> r.updates,
                        ctxCalls |-> r.ctxCalls]

\* the user triggers an enabled item of a registered menu
DoTrigger ==
    \E menuName \in DOMAIN menus :
        \E i \in 1..Len(menus[menuName].items) :
            LET action == menus[menuName].items[i]
            IN  /\ action.enabled
                /\ ~action.separator
                /\ last' = [op |-> "trigger", name |-> menuName, index |-> i,
                            doCalls |-> EmitTriggered(action)]
                /\ UNCHANGED <<contextProvider, menus, menuBuilders, menuBar>>

\* the application state changes: GetMenuContext returns another context
ChangeContext ==
    /\ contextProvider' \in Contexts \ {contextProvider}
    /\ last' = [op |-> "context"]
    /\ UNCHANGED <<menus, menuBuilders, menuBar>>

(***************************************************************************)
(* UsdQtUtilities.  The functions that can be registered:                  *)
(*   "GetReferencePath", "GetId" : the module's default implementations    *)
(*   "f1" : always raises FallbackException                                *)
(*   "f2" : returns "custom"                                               *)
(*   "f3" : raises FallbackException for a layer, ValueError otherwise     *)
(* exec_ is called with one argument (a layer or a plain identifier) and,  *)
(* for GetReferencePath, the text the user types into the dialog.          *)
(***************************************************************************)
RegNames == {"GetReferencePath", "GetId"}
Funcs == {"GetReferencePath", "GetId", "f1", "f2", "f3"}
Args == {"layerA", "idB"}
Inputs == {"", "typed"}

\* isinstance(layer, Sdf.Layer)
IsLayer(arg) == arg = "layerA"

\* layer.identifier
identifier(layer) == "idA"

Return(value) == [kind |-> "return", value |-> <<value>>]
Raise(exception) == [kind |-> exception, value |-> None]

\* GetReferencePath: the text of the input dialog
GetReferencePath(parent, input) == Return(input)

\* GetId
GetId(layer) == IF IsLayer(layer) THEN Return(identifier(layer)) ELSE Return(layer)

\* func(*args, **kwargs)
Call(func, arg, input) ==
    CASE func = "GetReferencePath" -> GetReferencePath(arg, input)
      [] func = "GetId" -> GetId(arg)
      [] func = "f1" -> Raise("FallbackException")
      [] func = "f2" -> Return("custom")
      [] func = "f3" -> IF IsLayer(arg) THEN Raise("FallbackException")
                        ELSE Raise("ValueError")

register_append(reg, name, func) ==
    Put(reg, name, Append(IF name \in DOMAIN reg THEN reg[name] ELSE <<>>, func))

\* UsdQtUtilities.register
register(reg, name, func) ==
    Put(reg, name, <<func>> \o (IF name \in DOMAIN reg THEN reg[name] ELSE <<>>))

RECURSIVE ExecLoop_toDefault(_, _, _, _)
ExecLoop_toDefault(funcs, arg, input, calls) ==
    IF funcs = <<>> THEN [kind |-> "return", value |-> None, calls |-> calls]
    ELSE LET r == Call(Head(funcs), arg, input)
         IN  IF r.kind = "FallbackException"
             THEN ExecLoop_toDefault(IF Len(funcs) > 1 THEN <<funcs[Len(funcs)]>> ELSE <<>>,
                                     arg, input, Append(calls, Head(funcs)))
             ELSE [kind |-> r.kind, value |-> r.value, calls |-> Append(calls, Head(funcs))]

\* the loop of UsdQtUtilities.exec_; calls lists the functions called.
\* Falling off the end of the loop returns None.
RECURSIVE ExecLoop(_, _, _, _)
ExecLoop(funcs, arg, input, calls) ==
    IF funcs = <<>> THEN [kind |-> "return", value |-> None, calls |-> calls]
    ELSE LET r == Call(Head(funcs), arg, input)
         IN  IF r.kind = "FallbackException"
             THEN ExecLoop(Tail(funcs), arg, input, Append(calls, Head(funcs)))
             ELSE [kind |-> r.kind, value |-> r.value, calls |-> Append(calls, Head(funcs))]

\* UsdQtUtilities.exec_
exec(reg, name, arg, input) == ExecLoop(reg[name], arg, input, <<>>)

(***************************************************************************)
(* State: the class attribute _registered, the order in which functions    *)
(* were registered under each name (history) and the last operation.       *)
(***************************************************************************)
VARIABLES registered, regOrder, lastExec

regVars == <<registered, regOrder, lastExec>>

vars == <<contextProvider, menus, menuBuilders, menuBar, last,
          registered, regOrder, lastExec>>

\* the module-level registrations of the two defaults
RegistryInit ==
    /\ registered = register(register(EmptyDict, "GetReferencePath", "GetReferencePath"),
                             "GetId", "GetId")
    /\ regOrder = [name \in RegNames |-> <<name>>]
    /\ lastExec = [op |-> "init"]

DoRegister ==
    \E name \in RegNames, func \in Funcs :
        /\ Len(registered[name]) < MaxRegs
        /\ registered' = register(registered, name, func)
        /\ regOrder' = [regOrder EXCEPT ![name] = Append(@, func)]
        /\ lastExec' = [op |-> "register", name |-> name, func |-> func]

DoExec ==
    \E name \in RegNames, arg \in Args, input \in Inputs :
        LET r == exec(registered, name, arg, input)
        IN  /\ lastExec' = [op |-> "exec", name |-> name, arg |-> arg, input |-> input,
                            calls |-> r.calls, kind |-> r.kind, value |-> r.value]
            /\ UNCHANGED <<registered, regOrder>>

Init == MenuBarInit /\ RegistryInit

Next ==
    \/ DoAddMenu /\ UNCHANGED regVars
    \/ DoAboutToShow /\ UNCHANGED regVars
    \/ DoTrigger /\ UNCHANGED regVars
    \/ ChangeContext /\ UNCHANGED regVars

Spec == Init /\ [][Next]_vars

NextReg ==
    \/ DoRegister /\ UNCHANGED menuVars
    \/ DoExec /\ UNCHANGED menuVars

SpecReg == Init /\ [][NextReg]_vars

(***************************************************************************)
(* Properties.                                                             *)
(***************************************************************************)
Reverse(s) == [i \in 1..Len(s) |-> s[Len(s) + 1 - i]]

NoDuplicates(s) == \A i, j \in 1..Len(s) : s[i] = s[j] => i = j

\* C1: exec_ calls the most recently registered function of the name first,
\* and when that function returns without raising, exec_ returns its result
\* and calls no other function.
C1_NewestRegisteredFirst ==
    lastExec.op = "exec" =>
        LET order == regOrder[lastExec.name]
            newest == order[Len(order)]
            r == Call(newest, lastExec.arg, lastExec.input)
        IN  /\ lastExec.calls # <<>>
            /\ lastExec.calls[1] = newest
            /\ r.kind = "return" =>
                   /\ lastExec.kind = "return"
                   /\ lastExec.value = r.value
                   /\ lastExec.calls = <<newest>>

C1_Witness ==
    /\ lastExec.op = "exec"
    /\ Len(regOrder[lastExec.name]) = 3
    /\ lastExec.calls = <<"f2">>
    /\ regOrder[lastExec.name][2] = "f3"
    /\ lastExec.kind = "return"
    /\ lastExec.value = <<"custom">>

C3_DuplicateNameRejected ==
    /\ [](NoDuplicates(menuBar))
    /\ [][(last'.op = "AddMenu" /\ last'.name \in DOMAIN menus) =>
              /\ last'.ret = "ValueError"
              /\ UNCHANGED <<menuBar, menus, menuBuilders>>]_vars

C3_Witness ==
    /\ last.op = "AddMenu"
    /\ last.ret = "ValueError"
    /\ last.name = <<"F">>
    /\ menuBar = <<<<"E">>, <<"F">>>>

\* C4: AddMenu returns True exactly when the builder's Build produced a
\* non-empty menu, and then that menu is added to the menu bar and registered,
\* with its builder, under the builder's name; otherwise it returns False, the
\* menu bar and the registries are unchanged and GetMenu and GetMenuBuilder
\* return None for the name.
C4_AddMenuReturnValue ==
    [][(last'.op = "AddMenu" /\ last'.name \notin DOMAIN menus) =>
          LET name == last'.name
              b == last'.build[1]
              after == Self'
          IN  /\ last'.ret \in {"True", "False"}
              /\ (last'.ret = "True") <=> (b.ret # None)
              /\ b.ret # None => ~isEmpty(b.ret[1])
              /\ b.ret = None => isEmpty(b.menu)
              /\ last'.ret = "True" =>
                     /\ menuBar' = Append(menuBar, name)
                     /\ GetMenu(after, name) = b.ret
                     /\ GetMenuBuilder(after, name) = last'.builder
                     /\ DOMAIN menus' = DOMAIN menus \cup {name}
                     /\ \A k \in DOMAIN menus :
                            menus'[k] = menus[k] /\ menuBuilders'[k] = menuBuilders[k]
              /\ last'.ret = "False" =>
                     /\ UNCHANGED <<menuBar, menus, menuBuilders>>
                     /\ GetMenu(after, name) = None
                     /\ GetMenuBuilder(after, name) = None]_vars

C4_Witness ==
    /\ last.op = "AddMenu"
    /\ last.ret = "False"
    /\ last.name = <<"E">>
    /\ last.builder[1].actions = <<"a2", "sep">>
    /\ menuBar = <<<<"F">>>>

\* The actions of the list that add an item to the menu in the context
Adds(a, context) == ~IsMenuAction(a) \/ MenuActionBuild(a, context) # None

AddsOf(actions, context) == SelectSeq(actions, LAMBDA a : Adds(a, context))

AddToMenuCalls(log) == SelectSeq(log, LAMBDA e : e.fn = "AddToMenu")

\* C5 as stated: Build returns None exactly when no action of the builder
\* added an item to the menu.
C5_NoneIffNothingAdded ==
    (last.op = "AddMenu" /\ last.build # None) =>
        ((last.build[1].ret = None) <=> (last.build[1].menu.items = <<>>))

\* C5 amended: Build returns None exactly when the menu holds no item other
\* than separators; otherwise it returns a menu named after the builder whose
\* items are, in the order of the actions list, those of the actions that
\* added one; every action of the list is asked once, in order, to add
\* itself with the given context.
C5_BuildResult ==
    (last.op = "AddMenu" /\ last.build # None) =>
        LET b == last.build[1]
            builder == last.builder[1]
            added == AddsOf(builder.actions, contextProvider)
            calls == AddToMenuCalls(b.log)
        IN  /\ (b.ret = None) <=>
                   (\A i \in 1..Len(b.menu.items) : b.menu.items[i].data = "sep")
            /\ b.ret # None =>
                   /\ b.ret[1].title = builder.name
                   /\ Len(b.ret[1].items) = Len(added)
                   /\ \A i \in 1..Len(added) : b.ret[1].items[i].data = added[i]
            /\ Len(calls) = Len(builder.actions)
            /\ \A i \in 1..Len(calls) :
                   /\ calls[i].self = builder.actions[i]
                   /\ calls[i].context = contextProvider

C5_Witness ==
    /\ last.op = "AddMenu"
    /\ last.ret = "True"
    /\ last.builder[1].actions = <<"a1", "sep">>
    /\ Len(last.build[1].ret[1].items) = 2
    /\ last.build[1].ret[1].items[1].data = "a1"
    /\ last.build[1].ret[1].items[2].separator

\* C6: MenuAction.AddToMenu calls self.Build(context) once; a result that is
\* not None is added to the menu as one item carrying the MenuAction as its
\* data; when the result is None the menu is left as it was.
C6_AddToMenu ==
    (last.op = "AddMenu" /\ last.build # None) =>
        LET log == last.build[1].log
        IN  \A k \in 1..Len(log) :
                (log[k].fn = "AddToMenu" /\ IsMenuAction(log[k].self)) =>
                    LET a == log[k].self
                        built == MenuActionBuild(a, log[k].context)
                        before == log[k].items
                        after == log[k + 2].items
                    IN  /\ k + 2 <= Len(log)
                        /\ log[k + 1].fn = "Build"
                        /\ log[k + 1].self = a
                        /\ log[k + 1].context = log[k].context
                        /\ log[k + 2].fn = "return"
                        /\ built # None =>
                               /\ Len(after) = Len(before) + 1
                               /\ SubSeq(after, 1, Len(before)) = before
                               /\ after[Len(after)].data = a
                               /\ after[Len(after)].text = built[1].text
                               /\ after[Len(after)].enabled = built[1].enabled
                               /\ after[Len(after)].triggered = built[1].triggered
                        /\ built = None => after = before

C6_Witness ==
    /\ last.op = "AddMenu"
    /\ last.build # None
    /\ last.builder[1].actions = <<"a1", "a2">>
    /\ contextProvider = "c0"
    /\ Len(last.build[1].menu.items) = 1
    /\ last.build[1].menu.items[1].data = "a1"

\* C7: triggering an enabled item generated by a MenuAction invokes that
\* MenuAction's do.
C7_TriggerInvokesDo ==
    last.op = "trigger" =>
        LET action == menus[last.name].items[last.index]
        IN  IsMenuAction(action.data) =>
                \E k \in 1..Len(last.doCalls) : last.doCalls[k].self = action.data

\* C8: when a registered menu is about to be shown the context is fetched
\* once, Update is called exactly once, with that context, on every item of
\* the menu whose data is a MenuAction, which leaves the item enabled exactly
\* when enable holds in that context; separators, other menus, the
\* registries and the menu bar are left alone.
C8_UpdateOnShow ==
    [][last'.op = "show" =>
          LET name == last'.name
              old == menus[name].items
              new == menus'[name].items
              updatesOf(i) == {k \in 1..Len(last'.updates) : last'.updates[k].index = i}
          IN  /\ last'.ctxCalls = 1
              /\ name \in DOMAIN menus
              /\ DOMAIN menus' = DOMAIN menus
              /\ \A m \in DOMAIN menus \ {name} : menus'[m] = menus[m]
              /\ menus'[name].title = menus[name].title
              /\ Len(new) = Len(old)
              /\ \A i \in 1..Len(old) :
                     IF IsMenuAction(old[i].data)
                     THEN /\ Cardinality(updatesOf(i)) = 1
                          /\ \A k \in updatesOf(i) :
                                 /\ last'.updates[k].self = old[i].data
                                 /\ last'.updates[k].context = contextProvider
                          /\ new[i].enabled = enable(old[i].data, contextProvider)
                          /\ new[i] = [old[i] EXCEPT !.enabled = new[i].enabled]
                     ELSE /\ updatesOf(i) = {}
                          /\ new[i] = old[i]
              /\ UNCHANGED <<menuBar, menuBuilders, contextProvider>>]_vars

C8_Witness ==
    /\ last.op = "show"
    /\ last.name = <<"F">>
    /\ DOMAIN menus = {<<"F">>, <<"E">>}
    /\ Len(menus[<<"F">>].items) = 2
    /\ menus[<<"F">>].items[1].separator
    /\ menus[<<"F">>].items[2].data = "a1"
    /\ menus[<<"F">>].items[2].enabled
    /\ menus[<<"F">>].items[2].triggered = <<>>
    /\ Len(last.updates) = 1
====
